---- MODULE Spec2Model ----
(***************************************************************************)
(* Figra: the four-stage analysis pipeline                                 *)
(*   Parser (findFileStructure) -> Finder (findPatternReferences)          *)
(*   -> Resolver (findPathResolver) -> Correlation (findCorrelation),      *)
(* driven by analyzeFile.                                                  *)
(*                                                                         *)
(* Source text is modelled one statement per line.  A statement is a       *)
(* record [k, name, entries, path]: k is the syntactic form, name the      *)
(* single identifier of the form, entries the comma-separated list between *)
(* braces (each entry "orig" or "orig as alias"; for an object literal     *)
(* "key: value"), path the module specifier.  A regular expression of the  *)
(* source is modelled by the set of forms it matches and by what its       *)
(* capture groups hold for such a form.                                    *)
(*                                                                         *)
(* A path is a record [segs, ext]: the segments from the root ("/" first   *)
(* for an absolute path) with the extension of the last segment split off. *)
(***************************************************************************)
EXTENDS FiniteSets, Integers, Sequences, TLC

\* number of top-level calls made in one process
MaxCalls == 2

----------------------------------------------------------------------------
(* Paths, statements, files *)

P(segs, ext) == [segs |-> segs, ext |-> ext]

NoPath == P(<<>>, "")

E(orig, alias) == [orig |-> orig, alias |-> alias]

St(k, name, entries, path) == [k |-> k, name |-> name, entries |-> entries, path |-> path]

F(path, lines) == [path |-> path, lines |-> lines]

Last(s) == s[Len(s)]

Front(s) == SubSeq(s, 1, Len(s) - 1)

ProjectDir == P(<<"/", "p">>, "")

utilTs == P(<<"/", "p", "util">>, ".ts")

aTs == P(<<"/", "p", "a">>, ".ts")

bTs == P(<<"/", "p", "b">>, ".ts")

cTs == P(<<"/", "p", "c">>, ".ts")

b2Ts == P(<<"/", "p", "b2">>, ".ts")

c2Ts == P(<<"/", "p", "c2">>, ".ts")

mathTs == P(<<"/", "p", "math">>, ".ts")

kitTs == P(<<"/", "p", "kit">>, ".ts")

logTs == P(<<"/", "p", "log">>, ".ts")

ghostTs == P(<<"/", "p", "ghost">>, ".ts")

loneTs == P(<<"/", "x", "lone">>, ".ts")

strayTs == P(<<"/", "x", "stray">>, ".ts")

fmtTs == P(<<"/", "p", "fmt">>, ".ts")

dTs == P(<<"/", "p", "d">>, ".ts")

eTs == P(<<"/", "p", "e">>, ".ts")

rTs == P(<<"/", "p", "r">>, ".ts")

gTs == P(<<"/", "p", "g">>, ".ts")

\* util.ts exports helper; a.ts imports it; b.ts relays it; c.ts imports from b
RelayFiles ==
  << F(utilTs, << St("function", "helper", <<>>, NoPath) >>),
     F(aTs, << St("importNamed", "", << E("helper", "") >>, P(<<".", "util">>, "")) >>),
     F(bTs, << St("reExport", "", << E("helper", "") >>, P(<<".", "util">>, "")) >>),
     F(cTs, << St("importNamed", "", << E("helper", "") >>, P(<<".", "b">>, "")) >>) >>

\* the relay scenario plus: a relay that writes the extension, math.ts (no
\* consumer), kit.ts (same name as util.ts, a trailing comma), log.ts (bare
\* default identifier) and lone.ts outside every project; ghost.ts and
\* stray.ts are in no tree
ProjectFiles ==
  RelayFiles \o
  << F(b2Ts, << St("reExport", "", << E("helper", "") >>, P(<<".", "util">>, ".ts")) >>),
     F(c2Ts, << St("importNamed", "", << E("helper", "") >>, P(<<".", "b2">>, "")) >>),
     F(mathTs, << St("function", "add", <<>>, NoPath),
                  St("defaultClass", "Calculator", <<>>, NoPath) >>),
     F(kitTs, << St("constFuncExpr", "helper", <<>>, NoPath),
                 St("namedExport", "", << E("helper", "assist"), E("", "") >>, NoPath) >>),
     F(logTs, << St("defaultIdent", "Logger", <<>>, NoPath) >>),
     F(loneTs, << St("function", "alone", <<>>, NoPath) >>) >>

\* fmt.ts exports format and Format; d.ts imports format in one statement;
\* e.ts imports from fmt.ts in two statements, one of them with a name fmt.ts
\* does not export; r.ts relays format and g.ts imports it from r.ts.  The
\* other files matter by their existence only: both.js next to both.ts, the
\* directory pkg with an index file, lib/thing.ts, and p2/lib.ts and
\* x/lone.ts outside the project /p.
CaseFiles ==
  << F(fmtTs, << St("function", "format", <<>>, NoPath),
                 St("class", "Format", <<>>, NoPath) >>),
     F(dTs, << St("importNamed", "", << E("format", "") >>, P(<<".", "fmt">>, "")) >>),
     F(eTs, << St("importNamed", "", << E("format", ""), E("other", "") >>,
                  P(<<".", "fmt">>, "")),
               St("importNamed", "", << E("Format", "") >>, P(<<".", "fmt">>, "")) >>),
     F(rTs, << St("reExport", "", << E("format", "") >>, P(<<".", "fmt">>, ".ts")) >>),
     F(gTs, << St("importNamed", "", << E("format", "") >>, P(<<".", "r">>, "")) >>),
     F(P(<<"/", "p", "both">>, ".js"), <<>>),
     F(P(<<"/", "p", "both">>, ".ts"), <<>>),
     F(P(<<"/", "p", "pkg", "index">>, ".ts"), <<>>),
     F(P(<<"/", "p", "lib", "thing">>, ".ts"), <<>>),
     F(P(<<"/", "p2", "lib">>, ".ts"), <<>>),
     F(loneTs, << St("function", "alone", <<>>, NoPath) >>) >>

\* the file paths handed to the pipeline in each tree
Targets(files) ==
  IF files = RelayFiles THEN {utilTs, ghostTs}
  ELSE IF files = CaseFiles THEN {fmtTs}
  ELSE {utilTs, mathTs, kitTs, logTs, ghostTs, loneTs, strayTs}

existsSync(files, path) == \E i \in 1..Len(files) : files[i].path = path

readFileSync(files, path) ==
  LET i == CHOOSE j \in 1..Len(files) : files[j].path = path IN files[i].lines

IsPrefix(s, t) == Len(s) <= Len(t) /\ SubSeq(t, 1, Len(s)) = s

\* @neabyte/project-root: the nearest ancestor directory holding a project marker
findProjectRoot(filePath) ==
  IF IsPrefix(ProjectDir.segs, filePath.segs) THEN ProjectDir ELSE NoPath

----------------------------------------------------------------------------
(* Parser *)

Categories ==
  << [re |-> "functionRegex", type |-> "function"],
     [re |-> "variableRegex", type |-> "variable"],
     [re |-> "classRegex", type |-> "class"],
     [re |-> "interfaceRegex", type |-> "interface"],
     [re |-> "typeRegex", type |-> "type"],
     [re |-> "enumRegex", type |-> "enum"],
     [re |-> "defaultFunctionRegex", type |-> "default"],
     [re |-> "defaultClassRegex", type |-> "default"],
     [re |-> "defaultConstRegex", type |-> "default"],
     [re |-> "defaultArrowRegex", type |-> "default"],
     [re |-> "functionExpressionRegex", type |-> "function"],
     [re |-> "templateExportRegex", type |-> "variable"],
     [re |-> "exportsRegex", type |-> "property"],
     [re |-> "reExportRegex", type |-> "re-export"],
     [re |-> "namedExportRegex", type |-> "named"],
     [re |-> "commonJSRegex", type |-> "named"] >>

\* the statement forms each regular expression of the Parser matches
RegexForms(re) ==
  CASE re = "functionRegex" -> {"function", "asyncFunction"}
    [] re = "variableRegex" -> {"variable", "constFuncExpr", "constTemplate"}
    [] re = "classRegex" -> {"class", "defaultClass"}
    [] re = "interfaceRegex" -> {"interface", "defaultInterface"}
    [] re = "typeRegex" -> {"type", "defaultType"}
    [] re = "enumRegex" -> {"enum", "defaultEnum"}
    [] re = "defaultFunctionRegex" -> {"defaultFunction"}
    [] re = "defaultClassRegex" -> {"defaultClass"}
    [] re = "defaultConstRegex" -> {"defaultConst"}
    [] re = "defaultArrowRegex" -> {"defaultAssign"}
    [] re = "functionExpressionRegex" -> {"constFuncExpr"}
    [] re = "templateExportRegex" -> {"constTemplate"}
    [] re = "exportsRegex" -> {"cjsProperty"}
    [] re = "reExportRegex" -> {"reExport"}
    [] re = "namedExportRegex" -> {"namedExport"}
    [] re = "commonJSRegex" -> {"cjsObject"}

\* n.trim().split(' as '): the alias when there is one, else the name itself
AliasOrName(entry) == IF entry.alias # "" THEN entry.alias ELSE entry.orig

\* n.trim().split(':')[0]: the key of an object-literal entry
KeyOf(entry) == entry.orig

RECURSIVE EntryNames(_, _)
EntryNames(re, entries) ==
  IF entries = <<>> THEN <<>>
  ELSE LET name == IF re = "commonJSRegex" THEN KeyOf(Head(entries))
                   ELSE AliasOrName(Head(entries))
       IN (IF name # "" THEN <<name>> ELSE <<>>) \o EntryNames(re, Tail(entries))

\* the names one statement hands to addExport under one regular expression
Captured(re, s) ==
  IF s.k \notin RegexForms(re) THEN <<>>
  ELSE IF re \in {"reExportRegex", "namedExportRegex", "commonJSRegex"}
       THEN EntryNames(re, s.entries)
       ELSE <<s.name>>

RECURSIVE Typed(_, _)
Typed(names, type) ==
  IF names = <<>> THEN <<>>
  ELSE <<[name |-> Head(names), type |-> type]>> \o Typed(Tail(names), type)

RECURSIVE CategoryCalls(_, _)
CategoryCalls(cat, lines) ==
  IF lines = <<>> THEN <<>>
  ELSE Typed(Captured(cat.re, Head(lines)), cat.type) \o CategoryCalls(cat, Tail(lines))

RECURSIVE LineCalls(_, _)
LineCalls(cats, line) ==
  IF cats = <<>> THEN <<>>
  ELSE Typed(Captured(Head(cats).re, line), Head(cats).type) \o LineCalls(Tail(cats), line)

RECURSIVE AddCallsBySource(_, _)
\* the addExport calls of a Parser that walks the text once and tries every
\* regular expression on each statement
AddCallsBySource(cats, lines) ==
  IF lines = <<>> THEN <<>>
  ELSE LineCalls(cats, Head(lines)) \o AddCallsBySource(cats, Tail(lines))

RECURSIVE AddCalls(_, _)
\* the addExport calls findFileStructure makes on a text, in order
AddCalls(cats, lines) ==
  IF cats = <<>> THEN <<>>
  ELSE CategoryCalls(Head(cats), lines) \o AddCalls(Tail(cats), lines)

\* addExport without the seenNames test: every captured name is pushed
addExportUnchecked(st, name, type) ==
  IF name # ""
  THEN [exports |-> Append(st.exports, [name |-> name, type |-> type]),
        seenNames |-> st.seenNames \cup {name}]
  ELSE st

addExport(st, name, type) ==
  IF name # "" /\ name \notin st.seenNames
  THEN [exports |-> Append(st.exports, [name |-> name, type |-> type]),
        seenNames |-> st.seenNames \cup {name}]
  ELSE st

RECURSIVE ApplyCalls(_, _)
ApplyCalls(st, calls) ==
  IF calls = <<>> THEN st
  ELSE ApplyCalls(addExport(st, Head(calls).name, Head(calls).type), Tail(calls))

\* findFileStructure emptying the module-level state when the file is missing
findFileStructureResetting(st, files, filePath) ==
  IF ~existsSync(files, filePath)
  THEN [ret |-> "fresh", st |-> [exports |-> <<>>, seenNames |-> {}]]
  ELSE [ret |-> "module",
        st |-> ApplyCalls(st, AddCalls(Categories, readFileSync(files, filePath)))]

\* st is the module-level state (exports, seenNames).  ret names the array
\* that is returned: "module" is the module-level exports array, "fresh" a
\* new empty array.
findFileStructure(st, files, filePath) ==
  IF ~existsSync(files, filePath)
  THEN [ret |-> "fresh", st |-> st]
  ELSE [ret |-> "module",
        st |-> ApplyCalls(st, AddCalls(Categories, readFileSync(files, filePath)))]

----------------------------------------------------------------------------
(* Finder *)

allowedExtensions == <<".js", ".mjs", ".cjs", ".jsx", ".ts", ".tsx">>

\* the directories of ignorePatterns
IgnoredDirs ==
  {".docusaurus", ".git", ".idea", ".next", ".nuxt", ".vscode", ".vuepress",
   "build", "coverage", "dist", "public", "node_modules", "out"}

SeqToSet(s) == {s[i] : i \in 1..Len(s)}

\* pairs <<hay, needle>> of distinct identifiers of the modelled files where
\* needle occurs inside hay (letter case ignored)
SubstringPairs == { <<"format", "Format">>, <<"Format", "format">> }

StrIncludes(hay, needle) == hay = needle \/ <<hay, needle>> \in SubstringPairs

Pat(shape, name) == [shape |-> shape, name |-> name]

KindPatterns(item) ==
  IF item.type \in {"type", "interface"} THEN << Pat("typeNamedImport", item.name) >>
  ELSE IF item.type \in {"class", "function", "variable"}
       THEN << Pat("aliasedNamedImport", item.name) >>
  ELSE IF item.type = "default" THEN << Pat("defaultImport", item.name) >>
  ELSE IF item.type = "property" THEN << Pat("relativeRequire", item.name) >>
  ELSE <<>>

ItemPatterns(item) ==
  KindPatterns(item) \o
  << Pat("requireDefault", item.name),
     Pat("namedImport", item.name),
     Pat("namespaceImport", item.name),
     Pat("defaultImport", item.name),
     Pat("defaultPlusNamed", item.name) >>

RECURSIVE searchPatterns(_)
searchPatterns(fileStructure) ==
  IF fileStructure = <<>> THEN <<>>
  ELSE ItemPatterns(Head(fileStructure)) \o searchPatterns(Tail(fileStructure))

\* [^}]*NAME[^}]* between the braces
BracesInclude(entries, name) ==
  \E i \in 1..Len(entries) :
    StrIncludes(entries[i].orig, name) \/ StrIncludes(entries[i].alias, name)

\* [^}]*NAME\s+as\s+\w+[^}]* between the braces
BracesAlias(entries, name) ==
  \E i \in 1..Len(entries) :
    entries[i].alias # "" /\ StrIncludes(entries[i].orig, name)

\* does the search pattern match the line
PatternMatches(pat, s) ==
  CASE pat.shape = "typeNamedImport" ->
         s.k = "importTypeNamed" /\ BracesInclude(s.entries, pat.name)
    [] pat.shape = "aliasedNamedImport" ->
         s.k = "importNamed" /\ BracesAlias(s.entries, pat.name)
    [] pat.shape = "defaultImport" -> s.k = "importDefault" /\ s.name = pat.name
    [] pat.shape = "relativeRequire" ->
         /\ s.k \in {"requireDestructure", "requireDefault"}
         /\ Len(s.path.segs) >= 2 /\ s.path.segs[1] = "."
         /\ \E i \in 2..Len(s.path.segs) : StrIncludes(s.path.segs[i], pat.name)
    [] pat.shape = "requireDefault" -> s.k = "requireDefault" /\ s.name = pat.name
    [] pat.shape = "namedImport" ->
         s.k = "importNamed" /\ BracesInclude(s.entries, pat.name)
    [] pat.shape = "namespaceImport" -> s.k = "importNamespace" /\ s.name = pat.name
    [] pat.shape = "defaultPlusNamed" -> s.k = "importDefaultNamed" /\ s.name = pat.name

\* the files ripgrep visits: under the root, allowed extension, not ignored
Searched(file, projectRoot) ==
  /\ IsPrefix(projectRoot.segs, file.path.segs)
  /\ file.path.ext \in SeqToSet(allowedExtensions)
  /\ SeqToSet(file.path.segs) \cap IgnoredDirs = {}

RECURSIVE FileMatches(_, _, _)
FileMatches(pat, path, lines) ==
  IF lines = <<>> THEN <<>>
  ELSE (IF PatternMatches(pat, Head(lines))
        THEN << [file |-> path, content |-> Head(lines)] >> ELSE <<>>)
       \o FileMatches(pat, path, Tail(lines))

RECURSIVE ripgrep(_, _, _)
\* the output of one search: the lines "file:content", in file order
ripgrep(files, projectRoot, pat) ==
  IF files = <<>> THEN <<>>
  ELSE (IF Searched(Head(files), projectRoot)
        THEN FileMatches(pat, Head(files).path, Head(files).lines) ELSE <<>>)
       \o ripgrep(Tail(files), projectRoot, pat)

\* does the text needle occur inside the text hay.  Two statements of the
\* modelled forms have different texts and neither holds the other, but for
\* a line of several declarators, const NAME = require('PATH'), ... (form
\* "requireDeclarators", the further identifiers in entries), which begins
\* with the text of the statement const NAME = require('PATH')
LineIncludes(hay, needle) ==
  \/ hay = needle
  \/ /\ hay.k = "requireDeclarators" /\ needle.k = "requireDefault"
     /\ hay.name = needle.name /\ hay.path = needle.path

\* existingResult.data.includes(contentStr): data is the text of the lines
\* joined by "\n" and contentStr holds no "\n", so it occurs in data exactly
\* when it occurs in one of the lines
DataIncludes(data, content) == \E i \in 1..Len(data) : LineIncludes(data[i], content)

\* MergeLine without the data.includes test: every output line is appended
MergeLineAppending(allResults, line) ==
  IF \E i \in 1..Len(allResults) : allResults[i].filename = line.file
  THEN LET i == CHOOSE j \in 1..Len(allResults) :
                  /\ allResults[j].filename = line.file
                  /\ \A h \in 1..(j - 1) : allResults[h].filename # line.file
       IN [allResults EXCEPT ![i].data = Append(@, line.content)]
  ELSE Append(allResults, [filename |-> line.file, data |-> << line.content >>])

\* Finder.ts 87-102, one output line
MergeLine(allResults, line) ==
  IF \E i \in 1..Len(allResults) : allResults[i].filename = line.file
  THEN LET i == CHOOSE j \in 1..Len(allResults) :
                  /\ allResults[j].filename = line.file
                  /\ \A h \in 1..(j - 1) : allResults[h].filename # line.file
       IN IF DataIncludes(allResults[i].data, line.content) THEN allResults
          ELSE [allResults EXCEPT ![i].data = Append(@, line.content)]
  ELSE Append(allResults, [filename |-> line.file, data |-> << line.content >>])

RECURSIVE MergeOutput(_, _)
MergeOutput(allResults, output) ==
  IF output = <<>> THEN allResults
  ELSE MergeOutput(MergeLine(allResults, Head(output)), Tail(output))

\* findPatternReferences with the binary test inside the try block: a missing
\* binary ends in the catch clause, which returns []
finderEntryCaught(rgPath, fileStructure) ==
  IF ~rgPath
  THEN [raised |-> FALSE, error |-> "", patterns |-> <<>>]
  ELSE [raised |-> FALSE, error |-> "", patterns |-> searchPatterns(fileStructure)]

\* Finder.ts 14-42: up to the first search.  rgPath is FALSE when no binary
\* is resolved.
finderEntry(rgPath, fileStructure) ==
  IF ~rgPath
  THEN [raised |-> TRUE, error |-> "Ripgrep binary not found", patterns |-> <<>>]
  ELSE [raised |-> FALSE, error |-> "", patterns |-> searchPatterns(fileStructure)]

\* Finder.ts 73-82 and 106-108: what the close/error event of search number
\* idx makes of the aggregate.  ev is "exit" (status 0 or 1), "exit2" (any
\* other status) or "error" (spawn failure).
finderOnClose(allResults, output, ev) ==
  IF ev = "exit"
  THEN [caught |-> FALSE, allResults |-> MergeOutput(allResults, output)]
  ELSE [caught |-> TRUE, allResults |-> <<>>]

----------------------------------------------------------------------------
(* Resolver *)

\* the absent path (null)
Null == NoPath

RECURSIVE NormSegs(_, _)
NormSegs(done, rest) ==
  IF rest = <<>> THEN done
  ELSE LET h == Head(rest)
       IN IF h = "." THEN NormSegs(done, Tail(rest))
          ELSE IF h = ".."
               THEN IF done # <<>> /\ Last(done) = "/" THEN NormSegs(done, Tail(rest))
                    ELSE IF done # <<>> /\ Last(done) # ".."
                         THEN NormSegs(Front(done), Tail(rest))
                         ELSE NormSegs(Append(done, ".."), Tail(rest))
               ELSE NormSegs(Append(done, h), Tail(rest))

\* node:path normalize
normalize(path) == P(NormSegs(<<>>, path.segs), path.ext)

normalizePath(path) == normalize(path)

IsAbsolute(path) == path.segs # <<>> /\ Head(path.segs) = "/"

\* node:path resolve(base, rel), base absolute
resolve(base, rel) ==
  IF IsAbsolute(rel) THEN normalize(rel)
  ELSE P(NormSegs(<<>>, base.segs \o rel.segs), rel.ext)

dirname(path) == P(Front(path.segs), "")

extname(path) == path.ext

\* pairs <<s, t>> of distinct path segments of the modelled files where the
\* text t is a prefix of the text s
PrefixPairs == { <<"p2", "p">> }

StrStartsWith(s, t) == s = t \/ <<s, t>> \in PrefixPairs

\* String.startsWith on the texts of two normalized absolute paths
PathStartsWith(full, root) ==
  LET n == Len(root.segs)
  IN /\ n <= Len(full.segs)
     /\ SubSeq(full.segs, 1, n - 1) = Front(root.segs)
     /\ StrStartsWith(full.segs[n], root.segs[n])

FirstExt(files, segs, exts) ==
  IF \E i \in 1..Len(exts) : existsSync(files, P(segs, exts[i]))
  THEN LET i == CHOOSE j \in 1..Len(exts) :
                  /\ existsSync(files, P(segs, exts[j]))
                  /\ \A h \in 1..(j - 1) : ~existsSync(files, P(segs, exts[h]))
       IN P(segs, exts[i])
  ELSE Null

\* findFileWithExtension without the loop over base/index.<ext>
findFileWithExtensionNoIndex(files, basePath) ==
  IF extname(basePath) # ""
  THEN IF existsSync(files, basePath) THEN basePath ELSE Null
  ELSE FirstExt(files, basePath.segs, allowedExtensions)

findFileWithExtension(files, basePath) ==
  IF extname(basePath) # ""
  THEN IF existsSync(files, basePath) THEN basePath ELSE Null
  ELSE IF FirstExt(files, basePath.segs, allowedExtensions) # Null
       THEN FirstExt(files, basePath.segs, allowedExtensions)
       ELSE FirstExt(files, Append(basePath.segs, "index"), allowedExtensions)

\* an alias key with a wildcard ends in the segment "*"
HasWildcard(key) == "*" \in SeqToSet(key.segs)

RECURSIVE aliasLoop(_, _, _)
\* the loop over aliasConfig of aliasNonRelativePath and aliasRelativePath;
\* matched tells whether an entry returned
aliasLoop(files, normImportPath, aliasConfig) ==
  IF aliasConfig = <<>> THEN [matched |-> FALSE, result |-> Null]
  ELSE LET alias == Head(aliasConfig)
           aliasKey == normalizePath(alias.key)
           aliasPrefix == Front(aliasKey.segs)
       IN IF HasWildcard(aliasKey)
          THEN IF /\ IsPrefix(aliasPrefix, normImportPath.segs)
                  /\ Len(normImportPath.segs) > Len(aliasPrefix)
               THEN LET relativePath ==
                          P(SubSeq(normImportPath.segs, Len(aliasPrefix) + 1,
                                   Len(normImportPath.segs)), normImportPath.ext)
                    IN [matched |-> TRUE,
                        result |-> findFileWithExtension(files,
                                     resolve(normalizePath(alias.value), relativePath))]
               ELSE aliasLoop(files, normImportPath, Tail(aliasConfig))
          ELSE IF normImportPath = aliasKey
               THEN [matched |-> TRUE,
                     result |-> findFileWithExtension(files, normalizePath(alias.value))]
               ELSE aliasLoop(files, normImportPath, Tail(aliasConfig))

\* normImportPath.startsWith('.')
StartsWithDot(path) == path.segs # <<>> /\ Head(path.segs) \in {".", ".."}

\* aliasNonRelativePath going on to projectRoot when the entry that matched
\* found no file
aliasNonRelativePathFallingBack(files, normImportPath, projectRoot, aliasConfig) ==
  IF ~StartsWithDot(normImportPath)
  THEN LET loop == aliasLoop(files, normImportPath, aliasConfig)
       IN IF loop.matched /\ loop.result # Null THEN loop.result
          ELSE findFileWithExtension(files, resolve(projectRoot, normImportPath))
  ELSE Null

aliasNonRelativePath(files, normImportPath, projectRoot, aliasConfig) ==
  IF ~StartsWithDot(normImportPath)
  THEN LET loop == aliasLoop(files, normImportPath, aliasConfig)
       IN IF loop.matched THEN loop.result
          ELSE findFileWithExtension(files, resolve(projectRoot, normImportPath))
  ELSE Null

aliasRelativePath(files, normImportPath, aliasConfig) ==
  aliasLoop(files, normImportPath, aliasConfig).result

\* importPath.startsWith('./') || importPath.startsWith('../')
IsRelativeSpec(importPath) ==
  Len(importPath.segs) >= 2 /\ Head(importPath.segs) \in {".", ".."}

resolveImportPath(files, importPath, fromFile, projectRoot, aliasConfig) ==
  LET normImportPath == normalizePath(importPath)
      normFullPath == normalize(resolve(dirname(fromFile), importPath))
      nonRel == aliasNonRelativePath(files, normImportPath, projectRoot, aliasConfig)
  IN IF IsRelativeSpec(importPath) /\ PathStartsWith(normFullPath, normalize(projectRoot))
     THEN findFileWithExtension(files, normFullPath)
     ELSE IF nonRel # Null THEN nonRel
          ELSE aliasRelativePath(files, normImportPath, aliasConfig)

\* the entry cut down to the name it imports
RawEntryOriginalName(e) == e.orig

\* the text of one entry of an import list, trimmed
RawEntry(e) == IF e.alias # "" THEN e.orig \o " as " \o e.alias ELSE e.orig

RECURSIVE RawEntries(_)
RawEntries(entries) ==
  IF entries = <<>> THEN <<>>
  ELSE (IF RawEntry(Head(entries)) # "" THEN << RawEntry(Head(entries)) >> ELSE <<>>)
       \o RawEntries(Tail(entries))

\* the four statement extractors: the forms each regular expression matches
ExtractorForms(re) ==
  CASE re = "regexES6Import" -> {"importNamed", "importTypeNamed"}
    [] re = "regexES6DefaultImport" -> {"importDefault"}
    [] re = "regexCommonJsDestructuring" -> {"requireDestructure"}
    [] re = "regexCommonJSDefault" -> {"requireDefault"}

Extractors ==
  << "regexES6Import", "regexES6DefaultImport",
     "regexCommonJsDestructuring", "regexCommonJSDefault" >>

ImportsOf(re, s) ==
  IF re \in {"regexES6Import", "regexCommonJsDestructuring"}
  THEN RawEntries(s.entries)
  ELSE IF s.name # "" THEN << s.name >> ELSE <<>>

RECURSIVE extractorRecords(_, _, _, _, _, _, _)
\* one extractor over the text of one candidate: rest is what is left of data
extractorRecords(re, files, rest, data, filename, projectRoot, projectConfig) ==
  IF rest = <<>> THEN <<>>
  ELSE LET s == Head(rest)
           imports == ImportsOf(re, s)
           resolvedPath ==
             resolveImportPath(files, s.path, filename, projectRoot, projectConfig)
       IN (IF /\ s.k \in ExtractorForms(re)
              /\ imports # <<>> /\ s.path # NoPath
              /\ resolvedPath # Null
           THEN << [reference |-> resolvedPath, imported |-> imports,
                    filename |-> filename, data |-> data] >>
           ELSE <<>>)
          \o extractorRecords(re, files, Tail(rest), data, filename, projectRoot,
                              projectConfig)

RECURSIVE candidateRecords(_, _, _, _, _)
candidateRecords(res, files, result, projectRoot, projectConfig) ==
  IF res = <<>> THEN <<>>
  ELSE extractorRecords(Head(res), files, result.data, result.data, result.filename,
                        projectRoot, projectConfig)
       \o candidateRecords(Tail(res), files, result, projectRoot, projectConfig)

RECURSIVE resolveAll(_, _, _, _)
resolveAll(files, projectRoot, projectConfig, filePattern) ==
  IF filePattern = <<>> THEN <<>>
  ELSE candidateRecords(Extractors, files, Head(filePattern), projectRoot, projectConfig)
       \o resolveAll(files, projectRoot, projectConfig, Tail(filePattern))

\* findPathResolver without "resolvedResults.length = 0"
findPathResolverKeeping(resolvedResults, files, projectRoot, projectConfig, filePattern) ==
  resolvedResults \o resolveAll(files, projectRoot, projectConfig, filePattern)

\* resolvedResults is the module-level array as the call finds it; the value
\* is the content of that same array when the call returns it
findPathResolver(resolvedResults, files, projectRoot, projectConfig, filePattern) ==
  LET cleared == SubSeq(resolvedResults, 1, 0)
  IN cleared \o resolveAll(files, projectRoot, projectConfig, filePattern)

\* @core/alias findAliasConfig: the paths table of tsconfig.json, here
\* { "@p/*": ["./*"] } with baseUrl "."
findAliasConfig(projectRoot) ==
  << [key |-> P(<<"@p", "*">>, ""), value |-> projectRoot] >>

----------------------------------------------------------------------------
(* Correlation *)

\* filePath.split('/').pop(): last segment and extension
getFileName(filePath) == [stem |-> Last(filePath.segs), ext |-> filePath.ext]

\* pairs <<s, t>> of distinct path segments of the modelled files where the
\* text t is a suffix of the text s; there is none
SuffixPairs == {}

StrEndsWith(s, t) == s = t \/ <<s, t>> \in SuffixPairs

\* ['"]\./[^'"]*NAME['"]: the specifier starts with ./ and ends with the
\* file name, extension included
EndsWithFileName(spec, fileName) ==
  /\ Len(spec.segs) >= 2 /\ Head(spec.segs) = "."
  /\ spec.ext = fileName.ext
  /\ StrEndsWith(Last(spec.segs), fileName.stem)

\* ['"]@[^'"]+['"]: the specifier starts with @
StartsWithAt(spec) == spec.segs # <<>> /\ Head(spec.segs) \in {"@p", "@lib"}

\* sourceFileName.replace('.ts', '').replace('.js', '')
StripTsJs(fileName) ==
  CASE fileName.ext = ".ts" -> fileName.stem
    [] fileName.ext = ".js" -> fileName.stem
    [] fileName.ext = ".tsx" -> fileName.stem \o "x"
    [] fileName.ext = ".jsx" -> fileName.stem \o "x"
    [] OTHER -> fileName.stem \o fileName.ext

\* result.data.includes(aliasPath): some line of the text holds the specifier
DataHasPath(data, aliasPath) == \E i \in 1..Len(data) : data[i].path = aliasPath

isAliasResolvedToSource(aliasPath, sourceFile, pathResolver) ==
  IF Last(aliasPath.segs) \o aliasPath.ext = StripTsJs(getFileName(sourceFile))
  THEN TRUE
  ELSE \E i \in 1..Len(pathResolver) :
         /\ pathResolver[i].reference = sourceFile
         /\ DataHasPath(pathResolver[i].data, aliasPath)

isReExportChain(files, sourceFile, targetFile, pathResolver) ==
  IF ~existsSync(files, targetFile) THEN FALSE
  ELSE LET content == readFileSync(files, targetFile)
           fileName == getFileName(sourceFile)
       IN \/ \E i \in 1..Len(content) :
               /\ content[i].k \in {"reExport", "reExportAll"}
               /\ \/ content[i].path = sourceFile
                  \/ EndsWithFileName(content[i].path, fileName)
          \/ \E i \in 1..Len(content) :
               /\ content[i].k \in {"reExport", "reExportAll"}
               /\ StartsWithAt(content[i].path)
               /\ isAliasResolvedToSource(content[i].path, sourceFile, pathResolver)

\* the test with a default export matching the imports of any record,
\* whatever file the record refers to
hasMatchingImportsAnyTarget(filePath, fileStructure, result) ==
  \E n \in 1..Len(result.imported) :
    \E i \in 1..Len(fileStructure) :
      \/ fileStructure[i].name = result.imported[n]
      \/ fileStructure[i].type = "default"

hasMatchingImports(filePath, fileStructure, result) ==
  \E n \in 1..Len(result.imported) :
    \E i \in 1..Len(fileStructure) :
      \/ fileStructure[i].name = result.imported[n]
      \/ fileStructure[i].type = "default" /\ result.reference = filePath

RECURSIVE correlationLoopSelf(_, _, _, _, _, _)
\* the loop with "result.reference === filePath" as the whole test of a
\* direct connection
correlationLoopSelf(files, filePath, fileStructure, pathResolver, rest, connectionId) ==
  IF rest = <<>> THEN <<>>
  ELSE LET result == Head(rest)
           direct == result.reference = filePath
           accepted ==
             /\ hasMatchingImports(filePath, fileStructure, result)
             /\ direct \/ isReExportChain(files, filePath, result.reference, pathResolver)
       IN IF accepted
          THEN << [id |-> connectionId,
                   from |-> IF direct THEN filePath ELSE result.reference,
                   to |-> result.filename,
                   type |-> IF direct THEN "direct" ELSE "re-export",
                   exports |-> result.imported] >>
               \o correlationLoopSelf(files, filePath, fileStructure, pathResolver,
                                      Tail(rest), connectionId + 1)
          ELSE correlationLoopSelf(files, filePath, fileStructure, pathResolver,
                                   Tail(rest), connectionId)

RECURSIVE correlationLoopCounting(_, _, _, _, _, _)
\* the loop with connectionId incremented for every record, skipped or not
correlationLoopCounting(files, filePath, fileStructure, pathResolver, rest, connectionId) ==
  IF rest = <<>> THEN <<>>
  ELSE LET result == Head(rest)
           direct == result.reference = filePath /\ result.filename # filePath
           accepted ==
             /\ hasMatchingImports(filePath, fileStructure, result)
             /\ direct \/ isReExportChain(files, filePath, result.reference, pathResolver)
       IN (IF accepted
           THEN << [id |-> connectionId,
                    from |-> IF direct THEN filePath ELSE result.reference,
                    to |-> result.filename,
                    type |-> IF direct THEN "direct" ELSE "re-export",
                    exports |-> result.imported] >>
           ELSE <<>>)
          \o correlationLoopCounting(files, filePath, fileStructure, pathResolver,
                                     Tail(rest), connectionId + 1)

RECURSIVE correlationLoop(_, _, _, _, _, _)
\* the loop of findCorrelation: rest is what is left of pathResolver
correlationLoop(files, filePath, fileStructure, pathResolver, rest, connectionId) ==
  IF rest = <<>> THEN <<>>
  ELSE LET result == Head(rest)
           direct == result.reference = filePath /\ result.filename # filePath
           accepted ==
             /\ hasMatchingImports(filePath, fileStructure, result)
             /\ direct \/ isReExportChain(files, filePath, result.reference, pathResolver)
       IN IF accepted
          THEN << [id |-> connectionId,
                   from |-> IF direct THEN filePath ELSE result.reference,
                   to |-> result.filename,
                   type |-> IF direct THEN "direct" ELSE "re-export",
                   exports |-> result.imported] >>
               \o correlationLoop(files, filePath, fileStructure, pathResolver,
                                  Tail(rest), connectionId + 1)
          ELSE correlationLoop(files, filePath, fileStructure, pathResolver,
                               Tail(rest), connectionId)

\* is the descriptor named in the import list of some accepted record
UsedExport(item, connections) ==
  \E i \in 1..Len(connections) : item.name \in SeqToSet(connections[i].exports)

\* findCorrelation returning only the descriptors some connection names
findCorrelationUsedOnly(files, filePath, fileStructure, pathResolver) ==
  LET connections == correlationLoop(files, filePath, fileStructure, pathResolver,
                                     pathResolver, 1)
  IN [filePath |-> filePath,
      connections |-> connections,
      exports |-> SelectSeq(fileStructure, LAMBDA item : UsedExport(item, connections))]

\* the DependencyTree; its exports field is the array passed as
\* fileStructure itself
findCorrelation(files, filePath, fileStructure, pathResolver) ==
  [filePath |-> filePath,
   connections |-> correlationLoop(files, filePath, fileStructure, pathResolver,
                                   pathResolver, 1),
   exports |-> fileStructure]

----------------------------------------------------------------------------
(* analyzeFile *)

\* analyzeFile with the two checks in the other order: findFileStructure is
\* called and tested before the project root is looked at
analyzeEntryExportsFirst(st, files, filePath) ==
  LET projectRoot == findProjectRoot(filePath)
      parsed == findFileStructure(st, files, filePath)
      fileStructure == IF parsed.ret = "module" THEN parsed.st.exports ELSE <<>>
  IN IF fileStructure = <<>>
     THEN [error |-> "No exports found in file", st |-> parsed.st,
           ret |-> parsed.ret, projectRoot |-> projectRoot,
           stages |-> << "findFileStructure" >>]
     ELSE IF projectRoot = Null
          THEN [error |-> "Project root not found", st |-> parsed.st,
                ret |-> parsed.ret, projectRoot |-> Null,
                stages |-> << "findFileStructure", "findProjectRoot" >>]
          ELSE [error |-> "", st |-> parsed.st, ret |-> parsed.ret,
                projectRoot |-> projectRoot,
                stages |-> << "findFileStructure", "findProjectRoot",
                              "findAliasConfig", "findPatternReferences" >>]

\* core/index.ts 77-86: the synchronous checks before the Finder is called.
\* st is the module-level state of the Parser; stages lists the calls made.
analyzeEntry(st, files, filePath) ==
  LET projectRoot == findProjectRoot(filePath)
      parsed == findFileStructure(st, files, filePath)
      fileStructure == IF parsed.ret = "module" THEN parsed.st.exports ELSE <<>>
  IN IF projectRoot = Null
     THEN [error |-> "Project root not found", st |-> st, ret |-> "",
           projectRoot |-> Null, stages |-> << "findProjectRoot" >>]
     ELSE IF fileStructure = <<>>
          THEN [error |-> "No exports found in file", st |-> parsed.st,
                ret |-> parsed.ret, projectRoot |-> projectRoot,
                stages |-> << "findProjectRoot", "findFileStructure" >>]
          ELSE [error |-> "", st |-> parsed.st, ret |-> parsed.ret,
                projectRoot |-> projectRoot,
                stages |-> << "findProjectRoot", "findFileStructure",
                              "findAliasConfig", "findPatternReferences" >>]

\* analyzeFile without the throw on an empty connections list
analyzeOutcomeLenient(onlyFiles, pathResolver, connections) ==
  IF pathResolver = <<>> THEN "No resolved paths found" ELSE ""

\* core/index.ts 92-108: the error analyzeFile throws after the Resolver and
\* the Correlator, "" when it returns
analyzeOutcome(onlyFiles, pathResolver, connections) ==
  IF pathResolver = <<>> THEN "No resolved paths found"
  ELSE IF ~onlyFiles /\ connections = <<>> THEN "No correlation found"
  ELSE ""

RECURSIVE Unique(_, _)
\* [...new Set(list)]
Unique(seen, list) ==
  IF list = <<>> THEN <<>>
  ELSE IF Head(list) \in seen THEN Unique(seen, Tail(list))
       ELSE << Head(list) >> \o Unique(seen \cup {Head(list)}, Tail(list))

RECURSIVE References(_)
References(pathResolver) ==
  IF pathResolver = <<>> THEN <<>>
  ELSE << Head(pathResolver).reference >> \o References(Tail(pathResolver))

----------------------------------------------------------------------------
(* State *)

VARIABLES
  fs,               \* the file tree, unchanged throughout
  rgInstalled,      \* resolveRipgrepPath() finds a binary
  exports,          \* Parser: the module-level exports array
  seenNames,        \* Parser: the module-level seenNames set
  resolvedResults,  \* Resolver: the module-level resolvedResults array
  calls,            \* number of top-level calls made so far
  run,              \* the call in progress
  firstKind,        \* history: the type of the first addExport call per name
  extractRet,       \* history: the last return of findFileStructure to a caller
  lastFinder,       \* history: how the last findPatternReferences call ended
  lastRun,          \* history: how the last analyzeFile call ended
  prevRun,          \* history: the analyzeFile call right before lastRun
  graph,            \* the DependencyTree last returned, as its holder sees it
  resolverCall,     \* the last findPathResolver call made on its own
  correlateCall,    \* the last findCorrelation call made on its own
  aggregateCall     \* the search outputs merged on their own, and the aggregate

vars ==
  << fs, rgInstalled, exports, seenNames, resolvedResults, calls, run, firstKind,
     extractRet, lastFinder, lastRun, prevRun, graph, resolverCall, correlateCall,
     aggregateCall >>

\* what the pipeline leaves alone
unitVars == << resolverCall, correlateCall, aggregateCall >>

IdleRun ==
  [pc |-> "idle", caller |-> "", filePath |-> NoPath, onlyFiles |-> FALSE,
   projectRoot |-> NoPath, patterns |-> <<>>, idx |-> 0,
   allResults |-> <<>>, child |-> 0, spawned |-> 0, failedIdx |-> 0,
   stages |-> <<>>, lenBefore |-> 0, nExtracted |-> 0, structRef |-> "",
   fileStructure |-> <<>>]

NoRun ==
  [status |-> "none", file |-> NoPath, onlyFiles |-> FALSE,
   error |-> "", stages |-> <<>>, searched |-> FALSE, engineFailed |-> FALSE,
   rootFound |-> FALSE, nExtracted |-> 0, lenBefore |-> 0, lenAfter |-> 0,
   nResolved |-> 0, relatedFiles |-> <<>>, connections |-> <<>>,
   exports |-> <<>>, svg |-> FALSE]

NoFinder ==
  [status |-> "none", error |-> "", value |-> <<>>, rg |-> FALSE,
   fileStructure |-> <<>>, searched |-> FALSE, allSearched |-> FALSE,
   engineFailed |-> FALSE, kept |-> <<>>]

NoExtract == [status |-> "none", file |-> NoPath, ret |-> "", value |-> <<>>]

NoGraph ==
  [status |-> "none", filePath |-> NoPath, connections |-> <<>>,
   exportsRef |-> "", exportsAtReturn |-> <<>>]

\* the content of the array a reference names
Deref(ref) == IF ref = "module" THEN exports ELSE <<>>

RECURSIVE FirstKinds(_, _)
FirstKinds(fk, addCalls) ==
  IF addCalls = <<>> THEN fk
  ELSE LET c == Head(addCalls)
       IN FirstKinds(IF c.name = "" \/ \E e \in fk : e.name = c.name
                     THEN fk ELSE fk \cup {c}, Tail(addCalls))

ParserCalls(filePath) ==
  IF existsSync(fs, filePath) THEN AddCalls(Categories, readFileSync(fs, filePath))
  ELSE <<>>

NoResolverCall ==
  [status |-> "none", projectConfig |-> <<>>, filePattern |-> <<>>,
   value |-> <<>>, dirty |-> FALSE]

NoAggregateCall == [status |-> "none", outputs |-> <<>>, value |-> <<>>]

NoCorrelateCall ==
  [status |-> "none", filePath |-> NoPath, fileStructure |-> <<>>,
   pathResolver |-> <<>>, tree |-> [filePath |-> NoPath, connections |-> <<>>,
                                    exports |-> <<>>]]

Init ==
  /\ fs \in {RelayFiles, ProjectFiles, CaseFiles}
  /\ rgInstalled \in BOOLEAN
  /\ exports = <<>>
  /\ seenNames = {}
  /\ resolvedResults = <<>>
  /\ calls = 0
  /\ run = IdleRun
  /\ firstKind = {}
  /\ extractRet = NoExtract
  /\ lastFinder = NoFinder
  /\ lastRun = NoRun
  /\ prevRun = NoRun
  /\ graph = NoGraph
  /\ resolverCall = NoResolverCall
  /\ correlateCall = NoCorrelateCall
  /\ aggregateCall = NoAggregateCall

----------------------------------------------------------------------------
(* Actions *)

ParserState == [exports |-> exports, seenNames |-> seenNames]

\* history of one findPatternReferences call: searched, a search was started;
\* allSearched, one was started for every pattern; engineFailed, one ended
\* with a status other than 0 and 1 or failed to spawn; kept, the aggregate
\* of the searches that had succeeded when the call came to its end
FinderRecord(r, status, error, value, failedIdx) ==
  [status |-> status, error |-> error, value |-> value, rg |-> rgInstalled,
   fileStructure |-> r.fileStructure, searched |-> r.spawned > 0,
   allSearched |-> r.spawned = Len(r.patterns), engineFailed |-> failedIdx # 0,
   kept |-> IF failedIdx # 0 THEN r.allResults ELSE value]

RunRecord(r, noExport, error, lenAfter, resolved, connections, fileStructure) ==
  [status |-> "done", file |-> r.filePath, onlyFiles |-> r.onlyFiles,
   error |-> error, stages |-> r.stages,
   searched |-> r.spawned > 0, engineFailed |-> r.failedIdx # 0,
   rootFound |-> findProjectRoot(r.filePath) # Null,
   nExtracted |-> r.nExtracted, lenBefore |-> r.lenBefore, lenAfter |-> lenAfter,
   nResolved |-> Len(resolved),
   relatedFiles |-> IF error = "" THEN Unique({}, References(resolved)) ELSE <<>>,
   connections |-> connections,
   exports |-> IF error = "" /\ ~r.onlyFiles THEN fileStructure ELSE <<>>,
   svg |-> error = "" /\ ~noExport /\ ~r.onlyFiles]

\* a caller calls findFileStructure(f) and keeps what it returns
ExtractCall(f) ==
  /\ run.pc = "idle" /\ calls < MaxCalls
  /\ LET r == findFileStructure(ParserState, fs, f)
     IN /\ exports' = r.st.exports
        /\ seenNames' = r.st.seenNames
        /\ firstKind' = FirstKinds(firstKind, ParserCalls(f))
        /\ extractRet' = [status |-> "returned", file |-> f, ret |-> r.ret,
                          value |-> IF r.ret = "module" THEN r.st.exports ELSE <<>>]
  /\ calls' = calls + 1
  /\ lastRun' = NoRun /\ prevRun' = NoRun
  /\ UNCHANGED << fs, rgInstalled, resolvedResults, run, lastFinder, graph >>
  /\ UNCHANGED unitVars

\* analyzeFile(f, args) up to its first await
AnalyzeStart(f, onlyFiles) ==
  /\ run.pc = "idle" /\ calls < MaxCalls
  /\ LET entry == analyzeEntry(ParserState, fs, f)
         called == "findFileStructure" \in SeqToSet(entry.stages)
         parsed == findFileStructure(ParserState, fs, f)
         fileStructure == IF entry.ret = "module" THEN entry.st.exports ELSE <<>>
         fe == finderEntry(rgInstalled, fileStructure)
         r == [IdleRun EXCEPT !.caller = "analyze", !.filePath = f,
                              !.onlyFiles = onlyFiles,
                              !.projectRoot = entry.projectRoot,
                              !.stages = entry.stages, !.lenBefore = Len(exports),
                              !.nExtracted = IF parsed.ret = "module"
                                             THEN Len(parsed.st.exports) ELSE 0,
                              !.structRef = entry.ret,
                              !.fileStructure = fileStructure,
                              !.patterns = fe.patterns]
     IN /\ exports' = entry.st.exports
        /\ seenNames' = entry.st.seenNames
        /\ firstKind' = IF called THEN FirstKinds(firstKind, ParserCalls(f))
                        ELSE firstKind
        /\ extractRet' = IF called
                         THEN [status |-> "returned", file |-> f, ret |-> entry.ret,
                               value |-> fileStructure]
                         ELSE extractRet
        /\ IF entry.error # ""
           THEN /\ run' = IdleRun
                /\ lastRun' = RunRecord(r, FALSE, entry.error, Len(entry.st.exports),
                                        <<>>, <<>>, <<>>)
                /\ prevRun' = lastRun
                /\ lastFinder' = lastFinder
           ELSE IF fe.raised
           THEN /\ run' = IdleRun
                /\ lastRun' = RunRecord(r, FALSE, fe.error, Len(entry.st.exports),
                                        <<>>, <<>>, <<>>)
                /\ prevRun' = lastRun
                /\ lastFinder' = FinderRecord(r, "raised", fe.error, <<>>, 0)
           ELSE IF fe.patterns = <<>>
           THEN /\ run' = [r EXCEPT !.pc = "resolve"]
                /\ lastFinder' = FinderRecord(r, "returned", "", <<>>, 0)
                /\ UNCHANGED << lastRun, prevRun >>
           ELSE /\ run' = [r EXCEPT !.pc = "spawn", !.idx = 1]
                /\ UNCHANGED << lastRun, prevRun, lastFinder >>
  /\ calls' = calls + 1
  /\ UNCHANGED << fs, rgInstalled, resolvedResults, graph >>
  /\ UNCHANGED unitVars

\* a caller calls findPatternReferences(projectRoot, fileStructure) itself
FinderCall(empty) ==
  /\ run.pc = "idle" /\ calls < MaxCalls
  /\ empty \/ exports # <<>>
  /\ LET fileStructure == IF empty THEN <<>> ELSE exports
         fe == finderEntry(rgInstalled, fileStructure)
         r == [IdleRun EXCEPT !.caller = "direct", !.projectRoot = ProjectDir,
                              !.fileStructure = fileStructure,
                              !.patterns = fe.patterns]
     IN IF fe.raised
        THEN /\ run' = IdleRun
             /\ lastFinder' = FinderRecord(r, "raised", fe.error, <<>>, 0)
        ELSE IF fe.patterns = <<>>
        THEN /\ run' = IdleRun
             /\ lastFinder' = FinderRecord(r, "returned", "", <<>>, 0)
        ELSE /\ run' = [r EXCEPT !.pc = "spawn", !.idx = 1]
             /\ lastFinder' = lastFinder
  /\ calls' = calls + 1
  /\ lastRun' = NoRun /\ prevRun' = NoRun
  /\ UNCHANGED << fs, rgInstalled, exports, seenNames, resolvedResults, firstKind,
                  extractRet, graph >>
  /\ UNCHANGED unitVars

\* the searches started without awaiting the close of the one before
SpawnWithoutWaiting ==
  /\ run.pc = "spawn"
  /\ run' = [run EXCEPT !.pc = IF run.idx < Len(run.patterns) THEN "spawn" ELSE "wait",
                        !.idx = IF run.idx < Len(run.patterns) THEN run.idx + 1
                                ELSE run.idx,
                        !.child = run.child + 1,
                        !.spawned = run.spawned + 1]
  /\ UNCHANGED << fs, rgInstalled, exports, seenNames, resolvedResults, calls,
                  firstKind, extractRet, lastFinder, lastRun, prevRun, graph >>
  /\ UNCHANGED unitVars

\* Finder.ts 60: spawn(ripgrepPath, args) for searchPatterns[idx]
Spawn ==
  /\ run.pc = "spawn"
  /\ run' = [run EXCEPT !.pc = "wait", !.child = run.child + 1,
                        !.spawned = run.spawned + 1]
  /\ UNCHANGED << fs, rgInstalled, exports, seenNames, resolvedResults, calls,
                  firstKind, extractRet, lastFinder, lastRun, prevRun, graph >>
  /\ UNCHANGED unitVars

\* the close or error event of the child, and the code that runs on it up to
\* the next spawn or to the return of findPatternReferences
Close(ev) ==
  /\ run.pc = "wait"
  /\ LET output == ripgrep(fs, run.projectRoot, run.patterns[run.idx])
         r == finderOnClose(run.allResults, output, ev)
         returns == r.caught \/ run.idx = Len(run.patterns)
         failedIdx == IF ev = "exit" THEN 0 ELSE run.idx
         after == [run EXCEPT !.child = run.child - 1, !.allResults = r.allResults,
                              !.failedIdx = failedIdx]
     IN IF ~returns
        THEN /\ run' = [after EXCEPT !.pc = "spawn", !.idx = run.idx + 1]
             /\ lastFinder' = lastFinder
        ELSE /\ lastFinder' = FinderRecord(run, "returned", "", r.allResults, failedIdx)
             /\ run' = IF run.caller = "analyze" THEN [after EXCEPT !.pc = "resolve"]
                       ELSE IdleRun
  /\ UNCHANGED << fs, rgInstalled, exports, seenNames, resolvedResults, calls,
                  firstKind, extractRet, lastRun, prevRun, graph >>
  /\ UNCHANGED unitVars

\* core/index.ts 87-125: the Resolver, the Correlator and the result;
\* noExport is args.values['no-export'], read here only
AnalyzeFinish(noExport) ==
  /\ run.pc = "resolve"
  /\ \E pathResolver \in
          { findPathResolver(resolvedResults, fs, run.projectRoot,
                             findAliasConfig(run.projectRoot), run.allResults) } :
       \E connections \in
            { IF pathResolver # <<>> /\ ~run.onlyFiles
              THEN findCorrelation(fs, run.filePath, Deref(run.structRef),
                                   pathResolver).connections
              ELSE <<>> } :
         LET fileStructure == Deref(run.structRef)
             correlated == pathResolver # <<>> /\ ~run.onlyFiles
             error == analyzeOutcome(run.onlyFiles, pathResolver, connections)
             r == [run EXCEPT !.stages =
                     run.stages \o << "findPathResolver" >>
                     \o (IF correlated THEN << "findCorrelation" >> ELSE <<>>)
                     \o (IF error = "" /\ ~noExport /\ ~run.onlyFiles
                         THEN << "exportToSVG" >> ELSE <<>>)]
         IN /\ resolvedResults' = pathResolver
            /\ lastRun' = RunRecord(r, noExport, error, Len(exports), pathResolver,
                                    connections, fileStructure)
            /\ prevRun' = lastRun
            /\ graph' = IF error = "" /\ ~run.onlyFiles
                        THEN [status |-> "held", filePath |-> run.filePath,
                              connections |-> connections,
                              exportsRef |-> run.structRef,
                              exportsAtReturn |-> fileStructure]
                        ELSE graph
  /\ run' = IdleRun
  /\ UNCHANGED << fs, rgInstalled, exports, seenNames, calls, firstKind, extractRet,
                  lastFinder >>
  /\ UNCHANGED unitVars

Next ==
  \/ \E f \in Targets(fs) : ExtractCall(f)
  \/ \E f \in Targets(fs), onlyFiles \in BOOLEAN : AnalyzeStart(f, onlyFiles)
  \/ \E empty \in BOOLEAN : FinderCall(empty)
  \/ Spawn
  \/ \E ev \in {"exit", "exit2", "error"} : Close(ev)
  \/ \E noExport \in BOOLEAN : AnalyzeFinish(noExport)

Spec == Init /\ [][Next]_vars

----------------------------------------------------------------------------
(* findPathResolver called on its own *)

\* number of candidates handed to one findPathResolver call
MaxCandidates == 1

\* one candidate of the Finder: a file name and one matched line
Cand(filename, k, name, entries, path) ==
  [filename |-> filename, data |-> << St(k, name, entries, path) >>]

\* candidates of d.ts, one per kind of specifier
CandidatePool ==
  { Cand(dTs, "importNamed", "", << E("format", "") >>, P(<<".", "fmt">>, "")),
    Cand(dTs, "importDefault", "Both", <<>>, P(<<".", "both">>, "")),
    Cand(dTs, "importDefault", "Pkg", <<>>, P(<<".", "pkg">>, "")),
    Cand(dTs, "importNamed", "", << E("gone", "") >>, P(<<".", "gone">>, "")),
    Cand(dTs, "requireDefault", "fmt", <<>>, P(<<".", "fmt">>, ".ts")),
    Cand(dTs, "requireDestructure", "", << E("gone", "") >>, P(<<".", "gone">>, ".ts")),
    Cand(dTs, "importNamed", "", << E("lib", "") >>, P(<<"..", "p2", "lib">>, "")),
    Cand(dTs, "importNamed", "", << E("alone", "") >>, P(<<"..", "x", "lone">>, "")),
    Cand(dTs, "importNamed", "", << E("format", "") >>, P(<<"@p", "fmt">>, "")),
    Cand(dTs, "importNamed", "", << E("thing", "") >>, P(<<"@p", "lib", "thing">>, "")),
    Cand(dTs, "importNamed", "", << E("format", "") >>, P(<<"@fmt">>, "")),
    Cand(dTs, "importNamed", "", << E("thing", "") >>, P(<<"lib", "thing">>, "")) }

CandidateLists == UNION { [1..n -> CandidatePool] : n \in 0..MaxCandidates }

\* alias tables: none; one wildcard entry; a wildcard entry in front of a
\* longer one; the same two the other way round; a plain entry; a wildcard
\* entry for a directory of the project root, sent to another directory
AliasTables ==
  { <<>>,
    << [key |-> P(<<"@p", "*">>, ""), value |-> ProjectDir] >>,
    << [key |-> P(<<"@p", "*">>, ""), value |-> P(<<"/", "p", "src">>, "")],
       [key |-> P(<<"@p", "lib", "*">>, ""), value |-> P(<<"/", "p", "lib">>, "")] >>,
    << [key |-> P(<<"@p", "lib", "*">>, ""), value |-> P(<<"/", "p", "lib">>, "")],
       [key |-> P(<<"@p", "*">>, ""), value |-> P(<<"/", "p", "src">>, "")] >>,
    << [key |-> P(<<"@fmt">>, ""), value |-> P(<<"/", "p", "fmt">>, "")] >>,
    << [key |-> P(<<"lib", "*">>, ""), value |-> P(<<"/", "p", "src">>, "")] >> }

PipelineIdle ==
  /\ rgInstalled = TRUE
  /\ exports = <<>> /\ seenNames = {}
  /\ calls = 0 /\ run = IdleRun
  /\ firstKind = {} /\ extractRet = NoExtract /\ lastFinder = NoFinder
  /\ lastRun = NoRun /\ prevRun = NoRun /\ graph = NoGraph

pipelineVars ==
  << rgInstalled, exports, seenNames, calls, run, firstKind, extractRet,
     lastFinder, lastRun, prevRun, graph >>

ResolverInit ==
  /\ fs = CaseFiles
  /\ PipelineIdle
  /\ resolvedResults = <<>>
  /\ resolverCall \in { [NoResolverCall EXCEPT !.projectConfig = t] : t \in AliasTables }
  /\ correlateCall = NoCorrelateCall
  /\ aggregateCall = NoAggregateCall

\* a caller calls findPathResolver(projectRoot, projectConfig, filePattern);
\* dirty tells that the module-level array held records when the call began
ResolveCall(filePattern) ==
  /\ \E value \in { findPathResolver(resolvedResults, fs, ProjectDir,
                                       resolverCall.projectConfig, filePattern) } :
        /\ resolvedResults' = value
        /\ resolverCall' = [status |-> "returned",
                            projectConfig |-> resolverCall.projectConfig,
                            filePattern |-> filePattern,
                            value |-> value,
                            dirty |-> resolvedResults # <<>>]
  /\ UNCHANGED << fs, correlateCall, aggregateCall >>
  /\ UNCHANGED pipelineVars

ResolverNext == \E filePattern \in CandidateLists : ResolveCall(filePattern)

ResolverSpec == ResolverInit /\ [][ResolverNext]_vars

----------------------------------------------------------------------------
(* findCorrelation called on its own *)

\* number of records handed to one findCorrelation call
MaxRecords == 2

hTs == P(<<"/", "p", "h">>, ".ts")

jTs == P(<<"/", "p", "j">>, ".ts")

iTs == P(<<"/", "p", "i">>, ".ts")

qTs == P(<<"/", "p", "q">>, ".ts")

\* the tree of fmt.ts with two more relays, which re-export through an alias:
\* h.ts has  export { format } from '@p/fmt'  and j.ts has
\* export * from '@lib/thing'
CorrelateFiles ==
  CaseFiles \o
  << F(hTs, << St("reExport", "", << E("format", "") >>, P(<<"@p", "fmt">>, "")) >>),
     F(jTs, << St("reExportAll", "", <<>>, P(<<"@lib", "thing">>, "")) >>) >>

\* candidates whose records reach findCorrelation: the import lines of d.ts,
\* e.ts and g.ts, an import of fmt.ts by itself, a default import, the
\* import of another module, import lists with a renamed entry (from fmt.ts
\* and from the relay r.ts), i.ts which imports from the relays h.ts and
\* j.ts, and q.ts which imports from fmt.ts and, in another statement, from
\* '@lib/thing'
CorrelatePattern ==
  << [filename |-> dTs, data |-> readFileSync(CaseFiles, dTs)],
     [filename |-> eTs, data |-> readFileSync(CaseFiles, eTs)],
     [filename |-> gTs, data |-> readFileSync(CaseFiles, gTs)],
     Cand(fmtTs, "importNamed", "", << E("format", "") >>, P(<<".", "fmt">>, "")),
     Cand(dTs, "importDefault", "Fmt", <<>>, P(<<".", "fmt">>, "")),
     Cand(dTs, "importNamed", "", << E("format", "") >>, P(<<".", "lib", "thing">>, "")),
     Cand(dTs, "importNamed", "", << E("format", "f") >>, P(<<".", "fmt">>, "")),
     Cand(gTs, "importNamed", "", << E("format", "f") >>, P(<<".", "r">>, "")),
     [filename |-> iTs,
      data |-> << St("importNamed", "", << E("format", "") >>, P(<<".", "h">>, "")),
                  St("importNamed", "", << E("format", "") >>, P(<<".", "j">>, "")) >>],
     [filename |-> qTs,
      data |-> << St("importNamed", "", << E("format", "") >>, P(<<".", "fmt">>, "")),
                  St("importNamed", "", << E("thing", "") >>, P(<<"@lib", "thing">>, "")) >>] >>

\* the records the Resolver makes of them
RecordPool == SeqToSet(resolveAll(CorrelateFiles, ProjectDir, <<>>, CorrelatePattern))

RecordLists == UNION { [1..n -> RecordPool] : n \in 0..MaxRecords }

StructureSet ==
  { <<>>,
    << [name |-> "format", type |-> "function"] >>,
    << [name |-> "format", type |-> "function"], [name |-> "Format", type |-> "class"] >>,
    << [name |-> "Fmt", type |-> "default"] >> }

\* the arguments of the call: filePath, fileStructure, pathResolver
CorrelateInit ==
  /\ fs = CorrelateFiles
  /\ PipelineIdle
  /\ resolvedResults = <<>>
  /\ resolverCall = NoResolverCall
  /\ aggregateCall = NoAggregateCall
  /\ correlateCall \in
       { [NoCorrelateCall EXCEPT !.status = "ready", !.filePath = fmtTs,
                                 !.fileStructure = fileStructure,
                                 !.pathResolver = pathResolver] :
           fileStructure \in StructureSet, pathResolver \in RecordLists }

\* the call findCorrelation(filePath, fileStructure, pathResolver) returns
CorrelateCall ==
  /\ correlateCall.status = "ready"
  /\ correlateCall' = [correlateCall EXCEPT
                         !.status = "returned",
                         !.tree = findCorrelation(fs, correlateCall.filePath,
                                                  correlateCall.fileStructure,
                                                  correlateCall.pathResolver)]
  /\ UNCHANGED << fs, resolvedResults, resolverCall, aggregateCall >>
  /\ UNCHANGED pipelineVars

CorrelateNext == CorrelateCall

CorrelateSpec == CorrelateInit /\ [][CorrelateNext]_vars

----------------------------------------------------------------------------
(* The aggregation of findPatternReferences on its own *)

\* number of searches whose outputs are merged
MaxOutputs == 3

mJs == P(<<"/", "p", "m">>, ".js")

kJs == P(<<"/", "p", "k">>, ".js")

nTs == P(<<"/", "p", "n">>, ".ts")

\* const format = require('./fmt')
ShortLine == St("requireDefault", "format", <<>>, P(<<".", "fmt">>, ""))

\* const format = require('./fmt'), other = require('./other')
LongLine == St("requireDeclarators", "format", << E("other", "") >>, P(<<".", "fmt">>, ""))

\* import { format } from './fmt'
ImportLine == St("importNamed", "", << E("format", "") >>, P(<<".", "fmt">>, ""))

\* one line "file:content" of the output of a search
Out(file, content) == [file |-> file, content |-> content]

\* outputs of searches in a project where m.js holds ShortLine before
\* LongLine, k.js holds LongLine before ShortLine and n.ts holds ImportLine:
\* const\s+format\s*=\s*require\( matches both lines of m.js and k.js (the
\* files come in either order), require\(['"]\./[^'"]*other[^'"]*['"]\)
\* matches LongLine only, import\s+\{[^}]*format[^}]*\}\s+from matches
\* ImportLine, and the other patterns match nothing
OutputPool ==
  { << Out(mJs, ShortLine), Out(mJs, LongLine), Out(kJs, LongLine), Out(kJs, ShortLine) >>,
    << Out(kJs, LongLine), Out(kJs, ShortLine), Out(mJs, ShortLine), Out(mJs, LongLine) >>,
    << Out(mJs, LongLine), Out(kJs, LongLine) >>,
    << Out(kJs, LongLine), Out(mJs, LongLine) >>,
    << Out(nTs, ImportLine) >>,
    <<>> }

OutputLists == UNION { [1..n -> OutputPool] : n \in 0..MaxOutputs }

RECURSIVE mergeSearches(_, _)
\* the loop over searchPatterns when every search exits with status 0 or 1:
\* outputs holds the output of each search in turn
mergeSearches(allResults, outputs) ==
  IF outputs = <<>> THEN allResults
  ELSE mergeSearches(finderOnClose(allResults, Head(outputs), "exit").allResults,
                     Tail(outputs))

\* the outputs the searches of one findPatternReferences call will produce
AggregateInit ==
  /\ fs = CaseFiles
  /\ PipelineIdle
  /\ resolvedResults = <<>>
  /\ resolverCall = NoResolverCall
  /\ correlateCall = NoCorrelateCall
  /\ aggregateCall \in
       { [NoAggregateCall EXCEPT !.status = "ready", !.outputs = outputs] :
           outputs \in OutputLists }

\* findPatternReferences merges the outputs and returns allResults
AggregateCall ==
  /\ aggregateCall.status = "ready"
  /\ aggregateCall' = [aggregateCall EXCEPT
                         !.status = "returned",
                         !.value = mergeSearches(<<>>, aggregateCall.outputs)]
  /\ UNCHANGED << fs, resolvedResults, resolverCall, correlateCall >>
  /\ UNCHANGED pipelineVars

AggregateNext == AggregateCall

AggregateSpec == AggregateInit /\ [][AggregateNext]_vars

----------------------------------------------------------------------------
(* findFileStructure on one text *)

\* number of statements of the text
MaxLines == 2

srcTs == P(<<"/", "p", "src">>, ".ts")

\* export statements of different categories
StatementPool ==
  { St("class", "Shape", <<>>, NoPath),
    St("function", "area", <<>>, NoPath),
    St("variable", "limit", <<>>, NoPath),
    St("defaultFunction", "main", <<>>, NoPath),
    St("cjsProperty", "area", <<>>, NoPath),
    St("namedExport", "", << E("area", "size"), E("limit", "") >>, NoPath) }

Texts == UNION { [1..n -> StatementPool] : n \in 0..MaxLines }

\* a process that has parsed nothing, and the one file src.ts
ParserInit ==
  /\ fs \in { << F(srcTs, text) >> : text \in Texts }
  /\ PipelineIdle
  /\ resolvedResults = <<>>
  /\ resolverCall = NoResolverCall
  /\ correlateCall = NoCorrelateCall
  /\ aggregateCall = NoAggregateCall

ParserNext == \E f \in {srcTs} : ExtractCall(f)

ParserSpec == ParserInit /\ [][ParserNext]_vars

----------------------------------------------------------------------------
(* Properties *)

\* what findFileStructure returns for f in a process that has parsed nothing
OwnSymbols(f) ==
  LET r == findFileStructure([exports |-> <<>>, seenNames |-> {}], fs, f)
  IN IF r.ret = "module" THEN r.st.exports ELSE <<>>

RECURSIVE Names(_)
Names(list) == IF list = <<>> THEN <<>> ELSE << Head(list).name >> \o Names(Tail(list))

NoDuplicateName(list) ==
  \A i, j \in 1..Len(list) : list[i].name = list[j].name => i = j

\* C1: the list findFileStructure returns for a file holds that file's
\* symbols and no others, whatever was parsed before in the process.
ExtractOnlyOwnSymbols ==
  extractRet.status = "returned" => extractRet.value = OwnSymbols(extractRet.file)

GraphNeverChanged ==
  graph.status = "held" => Deref(graph.exportsRef) = graph.exportsAtReturn

\* the statement forms the specification lists as supported, one name each
DeclaringForms ==
  {"function", "asyncFunction", "variable", "constFuncExpr", "constTemplate",
   "class", "interface", "type", "enum", "defaultFunction", "defaultClass",
   "defaultConst", "defaultIdent", "cjsProperty"}

RECURSIVE GroupNames(_, _)
GroupNames(k, entries) ==
  IF entries = <<>> THEN <<>>
  ELSE LET e == Head(entries)
           name == IF k = "cjsObject" THEN e.orig
                   ELSE IF e.alias # "" THEN e.alias ELSE e.orig
       IN (IF name # "" THEN << name >> ELSE <<>>) \o GroupNames(k, Tail(entries))

RECURSIVE DeclaredNames(_)
\* the names the export statements of a text declare, in source order
DeclaredNames(lines) ==
  IF lines = <<>> THEN <<>>
  ELSE LET s == Head(lines)
       IN (IF s.k \in DeclaringForms THEN << s.name >>
           ELSE IF s.k \in {"reExport", "namedExport", "cjsObject"}
                THEN GroupNames(s.k, s.entries)
           ELSE <<>>)
          \o DeclaredNames(Tail(lines))

\* C4: the first findFileStructure call of a process, on an existing file,
\* returns one descriptor per distinct declared name, in first-seen order.
ExtractExactlyDeclared ==
  ( /\ calls = 1 /\ extractRet.status = "returned"
    /\ existsSync(fs, extractRet.file) )
  => Names(extractRet.value) = Unique({}, DeclaredNames(readFileSync(fs, extractRet.file)))

\* C5: in the module-level list and in every returned list no two descriptors
\* share a name, no name is empty, and each descriptor is the first addExport
\* call made for its name.
FirstKindWins ==
  /\ NoDuplicateName(exports)
  /\ SeqToSet(exports) = firstKind
  /\ \A i \in 1..Len(exports) : exports[i].name # ""
  /\ extractRet.status = "returned"
     => /\ NoDuplicateName(extractRet.value)
        /\ SeqToSet(extractRet.value) \subseteq firstKind
        /\ \A i \in 1..Len(extractRet.value) : extractRet.value[i].name # ""

\* a file was parsed in which a name of the returned list is matched again
\* under another kind
FirstKindWitness ==
  /\ extractRet.status = "returned" /\ extractRet.ret = "module"
  /\ \E c \in SeqToSet(ParserCalls(extractRet.file)) :
       /\ c \notin SeqToSet(extractRet.value)
       /\ \E i \in 1..Len(extractRet.value) : extractRet.value[i].name = c.name

\* C6 as stated: findPatternReferences returns [] without raising when no
\* binary is resolved and when the exports list is empty.
FinderNeverRaises ==
  ( /\ lastFinder.status # "none"
    /\ ~lastFinder.rg \/ lastFinder.fileStructure = <<>> )
  => lastFinder.status = "returned" /\ lastFinder.value = <<>>

\* C6: without a binary findPatternReferences raises 'Ripgrep binary not
\* found' before any search; with a binary and an empty exports list it
\* returns [] without any search.
FinderRaisesWithoutBinary ==
  lastFinder.status # "none"
  => /\ ~lastFinder.rg
        => /\ lastFinder.status = "raised"
           /\ lastFinder.error = "Ripgrep binary not found"
           /\ ~lastFinder.searched
     /\ lastFinder.rg /\ lastFinder.fileStructure = <<>>
        => /\ lastFinder.status = "returned"
           /\ lastFinder.value = <<>>
           /\ ~lastFinder.searched

\* a call with an empty exports list and no binary has raised
FinderRaisedWitness ==
  /\ lastFinder.status = "raised"
  /\ ~lastFinder.rg /\ lastFinder.fileStructure = <<>>

\* every entry of kept is in value, with at least its lines
Keeps(value, kept) ==
  \A i \in 1..Len(kept) :
    \E j \in 1..Len(value) :
      /\ value[j].filename = kept[i].filename
      /\ SeqToSet(kept[i].data) \subseteq SeqToSet(value[j].data)

\* C7: a call in which one search failed still searches every pattern and
\* returns at least what the earlier searches had aggregated.
FailureDropsOnePattern ==
  (lastFinder.status = "returned" /\ lastFinder.engineFailed)
  => lastFinder.allSearched /\ Keeps(lastFinder.value, lastFinder.kept)

\* the full pipeline has run through the Resolver and has no connection
EndedWithoutConnections ==
  /\ lastRun.status = "done" /\ ~lastRun.onlyFiles
  /\ "findPathResolver" \in SeqToSet(lastRun.stages)
  /\ lastRun.connections = <<>>

\* C8 as stated: a pipeline that ends with zero connections returns a result
\* with the full exports list.
NoConnectionsIsResult ==
  (EndedWithoutConnections /\ ~lastRun.engineFailed)
  => lastRun.error = "" /\ Len(lastRun.exports) = lastRun.nExtracted

\* C8: a pipeline that ends with zero connections throws: 'No resolved paths
\* found' when nothing was resolved, else 'No correlation found'; no result
\* is returned.
NoConnectionsIsFailure ==
  EndedWithoutConnections
  => /\ lastRun.nResolved = 0 => lastRun.error = "No resolved paths found"
     /\ lastRun.nResolved # 0 => lastRun.error = "No correlation found"
     /\ lastRun.exports = <<>> /\ lastRun.relatedFiles = <<>> /\ ~lastRun.svg

\* math.ts, two exports and no consumer, was analyzed with a working engine
NoConnectionsWitness ==
  /\ EndedWithoutConnections /\ lastRun.file = mathTs
  /\ lastRun.searched /\ ~lastRun.engineFailed
  /\ lastRun.nExtracted = 2
  /\ lastRun.error = "No resolved paths found"

\* C9: without a project root analyzeFile throws before the Parser is called;
\* with a root and an empty list from the Parser it throws before any search;
\* in both cases neither the Resolver nor the Correlator is called.
PreconditionsFailEarly ==
  lastRun.status = "done"
  => /\ ~lastRun.rootFound
        => /\ lastRun.error = "Project root not found"
           /\ lastRun.stages = << "findProjectRoot" >>
           /\ lastRun.lenAfter = lastRun.lenBefore
           /\ ~lastRun.searched /\ lastRun.nResolved = 0
     /\ lastRun.rootFound /\ lastRun.nExtracted = 0
        => /\ lastRun.error = "No exports found in file"
           /\ lastRun.stages = << "findProjectRoot", "findFileStructure" >>
           /\ ~lastRun.searched /\ lastRun.nResolved = 0

\* a run without exports under a root, then a run on an existing file with
\* exports that has no root
PreconditionsWitness ==
  /\ prevRun.status = "done" /\ prevRun.rootFound /\ prevRun.nExtracted = 0
  /\ prevRun.error = "No exports found in file"
  /\ lastRun.status = "done" /\ ~lastRun.rootFound /\ lastRun.file = loneTs
  /\ lastRun.error = "Project root not found"

Links(connections) ==
  { [from |-> connections[i].from, to |-> connections[i].to,
     type |-> connections[i].type] : i \in 1..Len(connections) }

\* C10: in the tree util.ts, a.ts, b.ts, c.ts the analysis of util.ts yields
\* two connections, direct util.ts -> a.ts and re-export b.ts -> c.ts.
RelayYieldsTwoConnections ==
  ( /\ fs = RelayFiles /\ lastRun.status = "done" /\ lastRun.file = utilTs
    /\ ~lastRun.onlyFiles /\ lastRun.searched /\ ~lastRun.engineFailed )
  => /\ Len(lastRun.connections) = 2
     /\ Links(lastRun.connections) =
          { [from |-> utilTs, to |-> aTs, type |-> "direct"],
            [from |-> bTs, to |-> cTs, type |-> "re-export"] }

ExportNames(structure) == { structure[i].name : i \in 1..Len(structure) }

\* C11: every name in the exportedNames of a connection is the name of a
\* descriptor in the exports of the same graph.
ConnectionNamesAreExported ==
  ( lastRun.status = "done" /\ lastRun.error = "" /\ ~lastRun.onlyFiles )
  => \A i \in 1..Len(lastRun.connections) :
       SeqToSet(lastRun.connections[i].exports) \subseteq ExportNames(lastRun.exports)

\* C12: no two connections of one graph share the same from, to and kind.
NoDuplicateConnection ==
  ( lastRun.status = "done" /\ lastRun.error = "" /\ ~lastRun.onlyFiles )
  => \A i, j \in 1..Len(lastRun.connections) :
       ( /\ lastRun.connections[i].from = lastRun.connections[j].from
         /\ lastRun.connections[i].to = lastRun.connections[j].to
         /\ lastRun.connections[i].type = lastRun.connections[j].type ) => i = j

\* C13: the list a findPathResolver call returns depends only on its
\* arguments and the file tree: it is the list the same call returns when no
\* call was made before it.
ResolveIndependentOfEarlierCalls ==
  resolverCall.status = "returned"
  => resolverCall.value =
       findPathResolver(<<>>, fs, ProjectDir, resolverCall.projectConfig,
                        resolverCall.filePattern)

\* a call that found records of an earlier call in the array and returned
\* records of its own
ResolveAfterEarlierCallWitness ==
  /\ resolverCall.status = "returned"
  /\ resolverCall.dirty
  /\ resolverCall.value # <<>>

\* the directory tree below root holds path (whole path segments)
InsideRoot(path, root) == IsPrefix(root.segs, path.segs)

\* the records of value that stem from candidate c
RecordsOf(value, c) ==
  { i \in 1..Len(value) : value[i].filename = c.filename /\ value[i].data = c.data }

\* C14: a relative import whose resolved path lies outside projectRoot yields
\* no record, whatever the alias table; a sibling directory whose name begins
\* with the name of the root is outside.
RelativeOutsideRootYieldsNothing ==
  resolverCall.status = "returned"
  => \A n \in 1..Len(resolverCall.filePattern) :
       LET c == resolverCall.filePattern[n]
       IN \A l \in 1..Len(c.data) :
            ( /\ IsRelativeSpec(c.data[l].path)
              /\ ~InsideRoot(normalize(resolve(dirname(c.filename), c.data[l].path)),
                             ProjectDir) )
            => RecordsOf(resolverCall.value, c) = {}

\* the import path with the part before the * of key taken away
AliasSuffix(key, spec) ==
  P(SubSeq(spec.segs, Len(key.segs), Len(spec.segs)), spec.ext)

\* spec is the pattern key with its * replaced by some non-empty text
MatchesWildcard(key, spec) ==
  /\ HasWildcard(key)
  /\ IsPrefix(Front(key.segs), spec.segs)
  /\ Len(spec.segs) >= Len(key.segs)

\* C15: for every wildcard entry of the alias table, an import path equal to
\* the pattern with * replaced by S resolves to targetDirectory/S (with
\* extension and index probing) when a file exists there.
WildcardAliasResolves ==
  resolverCall.status = "returned"
  => \A n \in 1..Len(resolverCall.filePattern) :
       LET c == resolverCall.filePattern[n]
           table == resolverCall.projectConfig
       IN \A l \in 1..Len(c.data) : \A a \in 1..Len(table) :
            LET target == findFileWithExtension(fs,
                            resolve(table[a].value, AliasSuffix(table[a].key, c.data[l].path)))
            IN ( MatchesWildcard(table[a].key, c.data[l].path) /\ target # Null )
               => \E i \in RecordsOf(resolverCall.value, c) :
                    resolverCall.value[i].reference = target

ProbeOrder == << ".js", ".mjs", ".cjs", ".jsx", ".ts", ".tsx" >>

\* the existing file segs.<ext> of the earliest ext in ProbeOrder, if any
FirstExisting(segs) ==
  { P(segs, ProbeOrder[j]) : j \in { k \in 1..Len(ProbeOrder) :
      /\ existsSync(fs, P(segs, ProbeOrder[k]))
      /\ \A h \in 1..(k - 1) : ~existsSync(fs, P(segs, ProbeOrder[h])) } }

Located(base) ==
  IF base.ext # ""
  THEN IF existsSync(fs, base) THEN {base} ELSE {}
  ELSE IF FirstExisting(base.segs) # {} THEN FirstExisting(base.segs)
       ELSE FirstExisting(Append(base.segs, "index"))

\* the path a relative import of candidate c names, when the Resolver hands
\* it to findFileWithExtension
BasePath(c) == normalize(resolve(dirname(c.filename), c.data[1].path))

\* C16: a base path with an extension is located as itself if it exists and
\* is absent otherwise; a base path without one is located as base+ext for
\* the first existing ext in the order .js .mjs .cjs .jsx .ts .tsx, else as
\* base/index+ext in the same order, else it is absent and no record is
\* emitted.
FileLocatedByProbing ==
  resolverCall.status = "returned"
  => \A n \in 1..Len(resolverCall.filePattern) :
       LET c == resolverCall.filePattern[n]
       IN ( IsRelativeSpec(c.data[1].path) /\ PathStartsWith(BasePath(c), ProjectDir) )
          => { resolverCall.value[i].reference : i \in RecordsOf(resolverCall.value, c) }
               = Located(BasePath(c))

\* './pkg' from /p/d.ts: no /p/pkg.<ext> exists, /p/pkg/index.ts does
FileLocatedByIndexWitness ==
  /\ resolverCall.status = "returned"
  /\ \E n \in 1..Len(resolverCall.filePattern) :
       /\ resolverCall.filePattern[n].data[1].path = P(<<".", "pkg">>, "")
       /\ \E i \in RecordsOf(resolverCall.value, resolverCall.filePattern[n]) :
            resolverCall.value[i].reference = P(<<"/", "p", "pkg", "index">>, ".ts")

\* an analysis of fmt.ts in the tree of CaseFiles ran every search to its
\* end and returned a graph; fmt.ts exports format
FmtAnalyzed ==
  /\ fs = CaseFiles
  /\ lastRun.status = "done" /\ lastRun.file = fmtTs
  /\ lastRun.error = "" /\ ~lastRun.onlyFiles
  /\ lastRun.searched /\ ~lastRun.engineFailed
  /\ "format" \in ExportNames(lastRun.exports)

\* the search patterns generated for structure that match line s
PatternsMatching(structure, s) ==
  { i \in 1..Len(searchPatterns(structure)) :
      PatternMatches(searchPatterns(structure)[i], s) }

\* C17: d.ts holds the single statement import { format } from './fmt' and
\* fmt.ts exports format: the graph of fmt.ts holds exactly one connection to
\* d.ts, of kind direct, from fmt.ts, with exportedNames [format].
SingleImportOneConnection ==
  FmtAnalyzed
  => \E i \in 1..Len(lastRun.connections) :
       /\ lastRun.connections[i].to = dTs
       /\ lastRun.connections[i].type = "direct"
       /\ lastRun.connections[i].from = fmtTs
       /\ lastRun.connections[i].exports = << "format" >>
       /\ \A j \in 1..Len(lastRun.connections) :
            lastRun.connections[j].to = dTs => j = i

\* the graph was returned and several of the generated patterns match the
\* one line of d.ts
SingleImportWitness ==
  /\ FmtAnalyzed
  /\ Len(readFileSync(fs, dTs)) = 1
  /\ Cardinality(PatternsMatching(lastRun.exports, readFileSync(fs, dTs)[1])) >= 2
  /\ \E i \in 1..Len(lastRun.connections) : lastRun.connections[i].to = dTs

\* the rule a record falls under: the two tests of findCorrelation's if / else if
RecordKind(rec) ==
  IF rec.reference = correlateCall.filePath /\ rec.filename # correlateCall.filePath
  THEN "direct"
  ELSE IF isReExportChain(fs, correlateCall.filePath, rec.reference,
                          correlateCall.pathResolver)
       THEN "re-export" ELSE "none"

\* positions of the records that name an export and fall under a rule
AcceptedRecords ==
  { i \in 1..Len(correlateCall.pathResolver) :
      /\ hasMatchingImports(correlateCall.filePath, correlateCall.fileStructure,
                            correlateCall.pathResolver[i])
      /\ RecordKind(correlateCall.pathResolver[i]) # "none" }

\* the k-th accepted record
AcceptedRecord(k) ==
  correlateCall.pathResolver[
    CHOOSE i \in AcceptedRecords : Cardinality({ j \in AcceptedRecords : j <= i }) = k]

\* C18: the connections are the accepted records in order; to is the
\* record's consumer file; a connection is direct exactly when the record's
\* reference is filePath and its consumer file is not, and then from is
\* filePath; a re-export connection has from equal to the record's reference;
\* a record under neither rule yields no connection.
ConnectionEndsFollowRecord ==
  correlateCall.status = "returned"
  => /\ Len(correlateCall.tree.connections) = Cardinality(AcceptedRecords)
     /\ \A k \in 1..Len(correlateCall.tree.connections) :
          LET conn == correlateCall.tree.connections[k]
              rec == AcceptedRecord(k)
          IN /\ conn.to = rec.filename
             /\ conn.type \in {"direct", "re-export"}
             /\ conn.type = "direct"
                  <=> ( rec.reference = correlateCall.filePath
                        /\ rec.filename # correlateCall.filePath )
             /\ conn.type = "direct" => conn.from = correlateCall.filePath
             /\ conn.type = "re-export" => conn.from = rec.reference

\* a call that returned a direct and a re-export connection
ConnectionEndsWitness ==
  /\ correlateCall.status = "returned"
  /\ \E i, j \in 1..Len(correlateCall.tree.connections) :
       /\ correlateCall.tree.connections[i].type = "direct"
       /\ correlateCall.tree.connections[j].type = "re-export"

\* C19: the ids of the connections are 1, 2, ..., n in list order; a skipped
\* record consumes no id.
IdsCountAcceptedRecords ==
  correlateCall.status = "returned"
  => \A k \in 1..Len(correlateCall.tree.connections) :
       correlateCall.tree.connections[k].id = k

\* a call whose first record was skipped and whose second was accepted
SkippedBeforeAcceptedWitness ==
  /\ correlateCall.status = "returned"
  /\ Len(correlateCall.pathResolver) >= 2
  /\ 1 \notin AcceptedRecords /\ 2 \in AcceptedRecords
  /\ Len(correlateCall.tree.connections) = 1
  /\ correlateCall.tree.connections[1].to = correlateCall.pathResolver[2].filename

\* C20: the exports field of the returned graph is the fileStructure argument:
\* same descriptors, same order.
ExportsFieldIsInput ==
  correlateCall.status = "returned"
  => correlateCall.tree.exports = correlateCall.fileStructure

\* a call with a connection and with a descriptor no connection names
UnusedExportKeptWitness ==
  /\ correlateCall.status = "returned"
  /\ correlateCall.tree.connections # <<>>
  /\ \E i \in 1..Len(correlateCall.fileStructure) :
       /\ ~UsedExport(correlateCall.fileStructure[i], correlateCall.tree.connections)
       /\ correlateCall.tree.exports[i] = correlateCall.fileStructure[i]

\* the step is a findFileStructure call on a path that does not exist
ExtractOfMissingFile ==
  /\ calls' = calls + 1 /\ run' = run /\ lastRun' = NoRun
  /\ extractRet'.status = "returned"
  /\ ~existsSync(fs, extractRet'.file)

\* C21: findFileStructure on a path that does not exist returns an empty
\* list and leaves the accumulated exports and seenNames as they were.
MissingFileLeavesState ==
  [][ ExtractOfMissingFile
      => /\ extractRet'.ret = "fresh" /\ extractRet'.value = <<>>
         /\ exports' = exports /\ seenNames' = seenNames ]_vars

\* a call on a missing path returned after an earlier call had accumulated
\* exports, and they are still there
MissingFileWitness ==
  /\ extractRet.status = "returned"
  /\ ~existsSync(fs, extractRet.file)
  /\ extractRet.value = <<>>
  /\ lastRun = NoRun /\ run = IdleRun /\ calls = 2
  /\ exports # <<>>

\* the lines the outputs hold for file
OutputLines(outputs, file) ==
  UNION { { outputs[n][i].content : i \in { j \in 1..Len(outputs[n]) :
                                             outputs[n][j].file = file } } :
          n \in 1..Len(outputs) }

OutputFiles(outputs) ==
  UNION { { outputs[n][i].file : i \in 1..Len(outputs[n]) } : n \in 1..Len(outputs) }

\* C22: the returned list has at most one candidate per file name, and the
\* data of a candidate holds every distinct matched line of its file exactly
\* once; a line that is a substring of an aggregated line is still added.
EveryMatchedLineOnce ==
  aggregateCall.status = "returned"
  => LET value == aggregateCall.value
     IN /\ \A i, j \in 1..Len(value) : value[i].filename = value[j].filename => i = j
        /\ { value[i].filename : i \in 1..Len(value) } = OutputFiles(aggregateCall.outputs)
        /\ \A i \in 1..Len(value) :
             /\ SeqToSet(value[i].data) = OutputLines(aggregateCall.outputs, value[i].filename)
             /\ \A a, b \in 1..Len(value[i].data) :
                  value[i].data[a] = value[i].data[b] => a = b

\* the places <<category, statement, entry>> where the Parser captures name
\* in the text of file f
CapturedAt(f, name) ==
  LET lines == readFileSync(fs, f)
      names(c, l) == Captured(Categories[c].re, lines[l])
  IN UNION { UNION { { <<c, l, e>> : e \in { k \in 1..Len(names(c, l)) :
                                               names(c, l)[k] = name } } :
                     l \in 1..Len(lines) } :
             c \in 1..Len(Categories) }

\* category first, then position in the text
PlaceBefore(p, q) ==
  \/ p[1] < q[1]
  \/ p[1] = q[1] /\ p[2] < q[2]
  \/ p[1] = q[1] /\ p[2] = q[2] /\ p[3] < q[3]

\* C23: the descriptors findFileStructure returns for a text are ordered by
\* category precedence first and by position in the text within a category:
\* of two descriptors the earlier one is captured at a place before every
\* place where the later one is captured.
OrderedByCategory ==
  ( extractRet.status = "returned" /\ extractRet.ret = "module" )
  => \A i, j \in 1..Len(extractRet.value) :
       i < j => \E p \in CapturedAt(extractRet.file, extractRet.value[i].name) :
                  \A q \in CapturedAt(extractRet.file, extractRet.value[j].name) :
                    PlaceBefore(p, q)

\* the text holds export class Shape before export function area, and the
\* returned list holds area before Shape
OrderedByCategoryWitness ==
  /\ extractRet.status = "returned" /\ extractRet.ret = "module"
  /\ readFileSync(fs, extractRet.file) =
       << St("class", "Shape", <<>>, NoPath), St("function", "area", <<>>, NoPath) >>
  /\ Names(extractRet.value) = << "area", "Shape" >>

LineSets(value) ==
  { << value[i].filename, SeqToSet(value[i].data) >> : i \in 1..Len(value) }

Orderings(n) == { f \in [1..n -> 1..n] : \A a, b \in 1..n : f[a] = f[b] => a = b }

\* C25: the aggregate does not depend on the order in which the outputs of
\* the searches are merged: merged in any other order, every file ends up
\* with the same set of matched lines.
MergeOrderIndependent ==
  aggregateCall.status = "returned"
  => \A f \in Orderings(Len(aggregateCall.outputs)) :
       LineSets(mergeSearches(<<>>, [k \in 1..Len(aggregateCall.outputs) |->
                                      aggregateCall.outputs[f[k]]]))
         = LineSets(aggregateCall.value)

\* `return resolvedResults`: the list a caller holds from a call of
\* findPathResolver is the module-level array itself, so what the caller
\* reads in it at any later time is what that array holds then
returnedList == resolvedResults

\* C26: the list returned by an earlier call of findPathResolver keeps the
\* length and the contents it had when it was returned, whatever call is made
\* later.
EarlierListKept ==
  [][ resolverCall.status = "returned" => returnedList' = resolverCall.value ]_vars

\* the specifiers of the re-export statements of a file that start with @
AliasReExports(files, file) ==
  IF ~existsSync(files, file) THEN {}
  ELSE { line.path : line \in { x \in SeqToSet(readFileSync(files, file)) :
                                  /\ x.k \in {"reExport", "reExportAll"}
                                  /\ StartsWithAt(x.path) } }

\* a re-export statement of the file names sourceFile by its path or by its
\* file name
PathReExport(files, sourceFile, file) ==
  /\ existsSync(files, file)
  /\ \E line \in SeqToSet(readFileSync(files, file)) :
       /\ line.k \in {"reExport", "reExportAll"}
       /\ \/ line.path = sourceFile
          \/ EndsWithFileName(line.path, getFileName(sourceFile))

\* C27: a connection through a relay that re-exports by an alias path only
\* is made only if some record of pathResolver has the relay as its filename
\* and holds that alias path in its data.
AliasReExportNeedsRelayRecord ==
  correlateCall.status = "returned"
  => \A n \in 1..Len(correlateCall.tree.connections) :
       LET c == correlateCall.tree.connections[n]
       IN (c.type = "re-export" /\ ~PathReExport(fs, correlateCall.filePath, c.from))
          => \E aliasPath \in AliasReExports(fs, c.from) :
               \E i \in 1..Len(correlateCall.pathResolver) :
                 /\ correlateCall.pathResolver[i].filename = c.from
                 /\ DataHasPath(correlateCall.pathResolver[i].data, aliasPath)

\* the record uses an export: one of its imported names is the name of a
\* descriptor, or it imports something from filePath and a descriptor is of
\* type default
RecordUsesExport(filePath, fileStructure, record) ==
  LET names == { fileStructure[i].name : i \in 1..Len(fileStructure) }
      types == { fileStructure[i].type : i \in 1..Len(fileStructure) }
  IN \/ SeqToSet(record.imported) \cap names # {}
     \/ /\ "default" \in types
        /\ record.reference = filePath
        /\ record.imported # <<>>

\* the records that end a connection: reference, filename and imported names
\* are those of the connection
RecordsOfConnection(pathResolver, c) ==
  { i \in 1..Len(pathResolver) :
      /\ pathResolver[i].reference = c.from
      /\ pathResolver[i].filename = c.to
      /\ pathResolver[i].imported = c.exports }

\* C28: findCorrelation makes a connection of a record only if the record
\* uses an export (an imported name is a descriptor's name, or a descriptor is
\* of type default and the record refers to filePath); there are no more
\* connections than records that use an export.
ConnectionOnlyOfUsingRecord ==
  correlateCall.status = "returned"
  => LET filePath == correlateCall.filePath
         fileStructure == correlateCall.fileStructure
         pathResolver == correlateCall.pathResolver
         connections == correlateCall.tree.connections
     IN /\ \A n \in 1..Len(connections) :
             /\ RecordsOfConnection(pathResolver, connections[n]) # {}
             /\ \A i \in RecordsOfConnection(pathResolver, connections[n]) :
                  RecordUsesExport(filePath, fileStructure, pathResolver[i])
        /\ Len(connections)
             <= Cardinality({ i \in 1..Len(pathResolver) :
                                RecordUsesExport(filePath, fileStructure, pathResolver[i]) })

\* a record that refers to filePath from another file is skipped because it
\* uses no export, next to a record that is connected
ConnectionOnlyOfUsingRecordWitness ==
  /\ correlateCall.status = "returned"
  /\ Len(correlateCall.tree.connections) = 1
  /\ \E i \in 1..Len(correlateCall.pathResolver) :
       /\ correlateCall.pathResolver[i].reference = correlateCall.filePath
       /\ correlateCall.pathResolver[i].filename # correlateCall.filePath
       /\ ~RecordUsesExport(correlateCall.filePath, correlateCall.fileStructure,
                            correlateCall.pathResolver[i])

\* the entry is for the import path: with a wildcard, the path starts with
\* the key without its *; without one, the path is the key
EntryMatches(entry, spec) ==
  \/ MatchesWildcard(entry.key, spec)
  \/ ~HasWildcard(entry.key) /\ spec = entry.key

\* the first entries of the table that are for the import path (none or one)
FirstMatching(table, spec) ==
  { a \in 1..Len(table) :
      /\ EntryMatches(table[a], spec)
      /\ \A b \in 1..(a - 1) : ~EntryMatches(table[b], spec) }

\* where the entry sends the import path
EntryBase(entry, spec) ==
  IF HasWildcard(entry.key)
  THEN resolve(entry.value, AliasSuffix(entry.key, spec))
  ELSE entry.value

\* the files a non-relative import path may resolve to: those found under
\* the first entry that is for it, or under projectRoot if no entry is
DecidedTargets(table, spec) ==
  IF FirstMatching(table, spec) = {}
  THEN Located(resolve(ProjectDir, spec))
  ELSE UNION { Located(EntryBase(table[a], spec)) : a \in FirstMatching(table, spec) }

\* C29: a non-relative import path is resolved by the first entry of the
\* alias table that is for it, and by that entry alone: if no file is found
\* under it the import gives no record, whatever a later entry or projectRoot
\* would find; projectRoot is used only when no entry is for the path.
FirstAliasEntryDecides ==
  resolverCall.status = "returned"
  => \A n \in 1..Len(resolverCall.filePattern) :
       LET c == resolverCall.filePattern[n]
       IN ( Len(c.data) = 1 /\ ~StartsWithDot(c.data[1].path) )
          => { resolverCall.value[i].reference : i \in RecordsOf(resolverCall.value, c) }
               = DecidedTargets(resolverCall.projectConfig, c.data[1].path)

\* the first entry for the path finds no file where projectRoot would
FirstAliasEntryDecidesWitness ==
  /\ resolverCall.status = "returned"
  /\ \E n \in 1..Len(resolverCall.filePattern) :
       LET spec == resolverCall.filePattern[n].data[1].path
       IN /\ ~StartsWithDot(spec)
          /\ FirstMatching(resolverCall.projectConfig, spec) # {}
          /\ DecidedTargets(resolverCall.projectConfig, spec) = {}
          /\ Located(resolve(ProjectDir, spec)) # {}
          /\ RecordsOf(resolverCall.value, resolverCall.filePattern[n]) = {}

\* the record stems from one import statement whose list is renamed entries
\* only ('X as Y')
RenamedOnly(record) ==
  /\ Len(record.data) = 1
  /\ record.data[1].entries # <<>>
  /\ \A e \in 1..Len(record.data[1].entries) : record.data[1].entries[e].alias # ""

\* C30: names are matched by whole entries of the import list: the entry
\* 'format as f' is kept as that one string and is not the export name
\* format, so records of renamed entries only are connected only when a
\* descriptor is of type default and the record refers to filePath, and the
\* connection then lists 'format as f'.
RenamedEntryMatchedWhole ==
  ( /\ correlateCall.status = "returned"
    /\ correlateCall.pathResolver # <<>>
    /\ \A i \in 1..Len(correlateCall.pathResolver) :
         RenamedOnly(correlateCall.pathResolver[i]) )
  => /\ \A i \in 1..Len(correlateCall.pathResolver) :
          correlateCall.pathResolver[i].imported = << "format as f" >>
     /\ \A n \in 1..Len(correlateCall.tree.connections) :
          /\ \E i \in 1..Len(correlateCall.fileStructure) :
               correlateCall.fileStructure[i].type = "default"
          /\ correlateCall.tree.connections[n].from = correlateCall.filePath
          /\ correlateCall.tree.connections[n].type = "direct"
          /\ "format as f" \in SeqToSet(correlateCall.tree.connections[n].exports)

\* a record of 'format as f' that refers to filePath is connected because of
\* a descriptor of type default
RenamedEntryWitness ==
  /\ correlateCall.status = "returned"
  /\ \A i \in 1..Len(correlateCall.pathResolver) :
       RenamedOnly(correlateCall.pathResolver[i])
  /\ Len(correlateCall.tree.connections) = 1
  /\ correlateCall.tree.connections[1].exports = << "format as f" >>

====
